---- MODULE Spec2Model ----
(***************************************************************************)
(* The persistent completion-process provider of hindsight-service:        *)
(* class LLMProvider of src/providers/LLMProvider.js, in 'persistent'      *)
(* mode, and its 'api' mode as far as the public calls go.  One step of the model is one macrotask of the Node.js event loop *)
(* (a public call, a child-process event, a timer callback) together with  *)
(* the process.nextTick callbacks and the promise microtasks it leaves     *)
(* behind, which Node runs to completion before the next macrotask.        *)
(*                                                                         *)
(* Text is a sequence of characters (<<"H", "i">>); the empty sequence is  *)
(* the empty string.  A string field that is absent in a message is "" or  *)
(* <<>>: the code tests all of them with || only.                          *)
(***************************************************************************)
EXTENDS Integers, Sequences, FiniteSets, TLC

\* Bounds of the model.
MaxOps == 3          \* public calls (initialize, complete, shutdown) issued in one run
MaxProcs == 2        \* subprocesses spawned in one run
MaxFrags == 2        \* assistant fragments (one character of text each) a turn accumulates
MaxLines == 2        \* newline-terminated lines of a stdout stream decoded on its own
MaxMemories == 2     \* rows of the memories table of the server

VARIABLES
    state,           \* this.state: a ProviderState
    process,         \* this.process: 0 (null) or the index in procs of the handle held
    pendingPromise,  \* this.pendingPromise: 0 (null) or the index in turns of the open turn
    stats,           \* this.stats
    listeners,       \* the provider's own once('ready') / once('error') listeners
    procs,           \* every child process spawned so far, by spawn order
    turns,           \* every turn object _sendMessage created so far, by creation order
    calls,           \* every complete() call issued so far
    inits,           \* every initialize() call issued so far
    shuts,           \* every shutdown() call issued so far
    crashed,         \* an exception escaped a callback: the hosting process is gone
    last,            \* what the step just taken told which caller (and ignored)
    wire,            \* what the subprocesses of this run write: "plain", "rich", "noisy", "torn"
    mode,            \* this.mode: "persistent" or "api"
    client,          \* this.client is set (api mode)
    stdoutBuffer,    \* this.stdoutBuffer: the characters of the unfinished line
    pipe,            \* bytes written to the stdout pipe and not yet delivered
    read,            \* the bytes of pipe delivered so far
    heard,           \* the messages decoded from the bytes of pipe so far
    clock,           \* the wall clock of this run: "frozen" or "running"
    memories,        \* the server's table 'memories': a set of rows
    vectorIndex,     \* the ids in the server's vector index (idToVector)
    res,             \* the HTTP response (res.json) the server sent last
    embedder,        \* the EmbeddingService: initialized, initializing, extractor, initTimeMs
    onceInitialized, \* its once('initialized') listeners: the initialize() calls waiting
    embedInits       \* every initialize() call on the EmbeddingService so far

vars == <<state, process, pendingPromise, stats, listeners, procs, turns, calls,
          inits, shuts, crashed, last, wire, mode, client, stdoutBuffer, pipe, read,
          heard, clock, memories, vectorIndex, res, embedder, onceInitialized,
          embedInits>>

ProviderState == {"STOPPED", "STARTING", "READY", "BUSY", "ERROR"}

Modes == {"persistent", "api"}

----------------------------------------------------------------------------
(* The protocol messages a subprocess can emit (one JSON line each).        *)

TextBlock(s) == [type |-> "text", text |-> s]
ToolBlock == [type |-> "tool_use", text |-> <<"x">>]

\* A plain subprocess answers a request with one result or one error of a fixed
\* payload; a rich one also streams fragments and varies the payloads; a noisy
\* one streams fragments of one kind before its fixed answers; a torn one is a
\* plain one that may also write the beginning of a line.

\* msg.message.content of an assistant message
FragContents ==
    CASE wire \in {"plain", "torn"} -> {}
      [] wire = "noisy" -> { <<ToolBlock, TextBlock(<<"a">>)>> }
      [] OTHER -> { <<ToolBlock, TextBlock(<<"a">>)>>,
                    <<TextBlock(<<>>), TextBlock(<<"b">>)>> }

\* msg.result of a result message; <<>> also stands for a missing field.
ResultTexts == IF wire = "rich" THEN { <<>>, <<"r">> } ELSE { <<"r">> }

\* (msg.error.message, msg.message) of an error message; "" is a missing field.
ErrorPayloads ==
    IF wire # "rich" THEN { <<"e1", "m1">> }
    ELSE { <<"e1", "m1">>, <<"", "m1">>, <<"", "">> }

Message(type, forTurn, content, result, errorMessage, message) ==
    [type |-> type, forTurn |-> forTurn, content |-> content, result |-> result,
     errorMessage |-> errorMessage, message |-> message]

\* What a subprocess may write in answer to request t (forTurn records, for the
\* properties only, the request being answered: the wire format carries no id).
AssistantMsgs(t) == { Message("assistant", t, c, <<>>, "", "") : c \in FragContents }
ResultMsgs(t) == { Message("result", t, <<>>, s, "", "") : s \in ResultTexts }
ErrorMsgs(t) == { Message("error", t, <<>>, <<>>, e[1], e[2]) : e \in ErrorPayloads }
SystemMsg == Message("system", 0, <<>>, <<>>, "", "")

----------------------------------------------------------------------------
(* The provider as one record, so that a handler and the microtasks that    *)
(* follow it compose.  micro is the microtask queue, empty between steps;   *)
(* out collects what the step tells the callers.                            *)

Cur ==
    [state |-> state, process |-> process, pendingPromise |-> pendingPromise,
     stats |-> stats, listeners |-> listeners, procs |-> procs, turns |-> turns,
     calls |-> calls, inits |-> inits, shuts |-> shuts, crashed |-> crashed,
     client |-> client, stdoutBuffer |-> stdoutBuffer, parsed |-> <<>>,
     elapsed |-> 0, micro |-> <<>>, out |-> <<>>]

\* The response of a turn object that is no longer this.pendingPromise is never
\* read again.
Forget(r) ==
    [r EXCEPT !.turns = [t \in 1..Len(r.turns) |->
                            IF t # r.pendingPromise
                            THEN [r.turns[t] EXCEPT !.response = <<>>]
                            ELSE r.turns[t]]]

CommitProvider(r0) ==
    LET r == Forget(r0)
    IN  /\ state' = r.state
        /\ process' = r.process
        /\ pendingPromise' = r.pendingPromise
        /\ stats' = r.stats
        /\ listeners' = r.listeners
        /\ procs' = r.procs
        /\ turns' = r.turns
        /\ calls' = r.calls
        /\ inits' = r.inits
        /\ shuts' = r.shuts
        /\ crashed' = r.crashed
        /\ last' = r.out
        /\ wire' = wire
        /\ clock' = clock
        /\ mode' = mode
        /\ client' = r.client
        /\ stdoutBuffer' = r.stdoutBuffer

Commit(r) ==
    /\ CommitProvider(r)
    /\ UNCHANGED <<pipe, read, heard, memories, vectorIndex, res, embedder,
                   onceInitialized, embedInits>>

\* Date.now() - startTime, measured when an answer arrives: Date.now() is the
\* wall clock, which may stand still, advance, or be set back meanwhile.
Elapsed == IF clock = "frozen" THEN {0} ELSE {-1, 0, 1}

\* Math.round(totalTimeMs / completions)
Round(totalTimeMs, completions) ==
    (2 * totalTimeMs + completions) \div (2 * completions)

\* completions++, totalTimeMs += elapsed, avgTimeMs = Math.round(...)
CountCompletion(r) ==
    [r EXCEPT !.stats.completions = @ + 1,
              !.stats.totalTimeMs = @ + r.elapsed,
              !.stats.avgTimeMs = Round(r.stats.totalTimeMs + r.elapsed,
                                        r.stats.completions + 1)]

Job(kind, id, ok, err) == [job |-> kind, id |-> id, ok |-> ok, err |-> err]

\* A caller awaiting a promise: the initialize() call id, or the complete() call id.
Who(kind, id) == [kind |-> kind, id |-> id]
Nobody == Who("none", 0)

\* What a caller (or the warmup of turn id, or a shutdown() call) is told:
\* ret is "text" (val), "true", "false", "void" or "throw" (err).
Outcome(who, ret, val, err) == [who |-> who, ret |-> ret, val |-> val, err |-> err]

Tell(r, who, ret, val, err) == [r EXCEPT !.out = Append(@, Outcome(who, ret, val, err))]

\* A child process object as spawn() returns it.
NewProc(outcome) ==
    [alive |-> outcome = "ok",          \* running: it can still write and exit
     pid |-> outcome = "ok",            \* child.pid is set
     stdinWritable |-> outcome # "failClosed",
     inbox |-> <<>>,                    \* requests written to its stdin, unanswered
     exitListeners |-> <<>>,            \* shutdown() calls whose once('exit') is attached
     sigterm |-> 0, sigkill |-> 0,      \* signals delivered to it
     warmupTimeout |-> TRUE,            \* the 5 s warmup timer is armed
     start |-> TRUE,                    \* the promise of _startPersistentProcess is pending
     starter |-> Nobody]                \* who awaits that promise

\* The object _sendMessage stores in this.pendingPromise, with the promise it settles.
NewTurn(owner, p) ==
    [owner |-> owner,                   \* 0: the warmup; c: the complete() call c
     proc |-> p,                        \* the process whose stdin got the request
     open |-> TRUE,                     \* the promise is pending
     timer |-> TRUE,                    \* timeoutId is armed
     response |-> <<>>]                 \* pendingPromise.response

----------------------------------------------------------------------------
(* Promises.  Settling the promise of a turn schedules whoever waits on it. *)

\* The promise of turn t settles (resolve or reject of the Promise in
\* _sendMessage).  A settled promise ignores a second settlement.  The warmup's
\* .then/.catch runs as a microtask; a complete() caller just gets the outcome.
SettlePromise(r, t, ok, val, err) ==
    IF ~r.turns[t].open THEN r
    ELSE LET owner == r.turns[t].owner
             r1 == [r EXCEPT !.turns[t].open = FALSE]
         IN  IF owner = 0
             THEN [Tell(r1, Who("warmup", t), IF ok THEN "text" ELSE "throw", val, err)
                      EXCEPT !.micro = Append(@, Job("warmup", t, ok, err))]
             ELSE [Tell(r1, Who("call", owner), IF ok THEN "text" ELSE "throw", val, err)
                      EXCEPT !.calls[owner].pc = "done"]

\* pendingPromise.resolve / pendingPromise.reject: clearTimeout, then settle.
PendingResolve(r, t, val) ==
    SettlePromise([r EXCEPT !.turns[t].timer = FALSE], t, TRUE, val, "")

PendingReject(r, t, err) ==
    SettlePromise([r EXCEPT !.turns[t].timer = FALSE], t, FALSE, <<>>, err)

\* The precondition of _sendMessage; when it fails the call throws
\* 'Process not running'.
CanSend(r) == r.process # 0 /\ r.procs[r.process].stdinWritable

\* _sendMessage past its precondition: arm the timeout, store the turn in
\* this.pendingPromise (whatever it held), go BUSY, write the request.
_sendMessage(r, owner) ==
    LET t == Len(r.turns) + 1
    IN  [r EXCEPT !.turns = Append(@, NewTurn(owner, r.process)),
                  !.pendingPromise = t,
                  !.state = "BUSY",
                  !.procs[r.process].inbox = Append(@, t)]

\* The setTimeout callback of _sendMessage for turn t.
TurnTimeout(r, t) ==
    SettlePromise([r EXCEPT !.turns[t].timer = FALSE,
                            !.pendingPromise = 0,
                            !.state = "READY"],
                  t, FALSE, <<>>, "Timeout")

----------------------------------------------------------------------------
(* _handleMessage                                                           *)

\* The loop over msg.message.content: text blocks with a non-empty text are
\* appended to the response, in order.
RECURSIVE AccumulateBlocks(_, _)
AccumulateBlocks(response, blocks) ==
    IF blocks = <<>> THEN response
    ELSE LET block == Head(blocks)
         IN  AccumulateBlocks(
                 IF block.type = "text" /\ block.text # <<>>
                 THEN response \o block.text ELSE response,
                 Tail(blocks))

\* msg.error?.message || msg.message || 'Unknown error'
DecodeError(msg) ==
    IF msg.errorMessage # "" THEN msg.errorMessage
    ELSE IF msg.message # "" THEN msg.message
    ELSE "Unknown error"

\* A result handler that always answers with the result's own text.
ResultResponseOwnText(response, msg) == msg.result

\* this.pendingPromise.response || msg.result || ''
ResultResponse(response, msg) ==
    IF response # <<>> THEN response ELSE msg.result

\* A fragment that ends the turn as a result does.
CaseAssistantSettles(r, t, msg) ==
    [PendingResolve(r, t, AccumulateBlocks(r.turns[t].response, msg.content))
        EXCEPT !.pendingPromise = 0, !.state = "READY"]

CaseAssistant(r, t, msg) ==
    [r EXCEPT !.turns[t].response = AccumulateBlocks(@, msg.content)]

CaseResult(r, t, msg) ==
    LET r1 == CountCompletion(r)
        r2 == PendingResolve(r1, t, ResultResponse(r.turns[t].response, msg))
    IN  [r2 EXCEPT !.pendingPromise = 0, !.state = "READY"]

CaseError(r, t, msg) ==
    LET r1 == [r EXCEPT !.stats.errors = @ + 1]
        r2 == PendingReject(r1, t, DecodeError(msg))
    IN  [r2 EXCEPT !.pendingPromise = 0, !.state = "READY"]

\* _handleMessage without its first line: a result counts as a completion even
\* when no turn is open.
_handleMessageCountsOrphans(r, msg) ==
    IF r.pendingPromise = 0
    THEN IF msg.type = "result" THEN CountCompletion(r) ELSE r
    ELSE LET t == r.pendingPromise
         IN  CASE msg.type = "assistant" -> CaseAssistant(r, t, msg)
               [] msg.type = "result" -> CaseResult(r, t, msg)
               [] msg.type = "error" -> CaseError(r, t, msg)
               [] OTHER -> r

_handleMessage(r, msg) ==
    IF r.pendingPromise = 0 THEN r
    ELSE LET t == r.pendingPromise
         IN  CASE msg.type = "assistant" -> CaseAssistant(r, t, msg)
               [] msg.type = "result" -> CaseResult(r, t, msg)
               [] msg.type = "error" -> CaseError(r, t, msg)
               [] OTHER -> r

----------------------------------------------------------------------------
(* Callers.  An initialize() caller only gets its outcome; a complete()      *)
(* caller goes on in _persistentComplete, as a microtask.                    *)

\* The promise a caller awaits in initialize() resolves with value ("true"/"false").
ResolveWho(r, who, value) ==
    CASE who.kind = "init" ->
           IF r.inits[who.id].pc = "pending"
           THEN [Tell(r, who, value, <<>>, "") EXCEPT !.inits[who.id].pc = "done"]
           ELSE r
      [] who.kind = "call" ->
           IF r.calls[who.id].pc = "awaitInit"
           THEN [r EXCEPT !.calls[who.id].pc = "running",
                          !.micro = Append(@, Job("afterInit", who.id, TRUE, ""))]
           ELSE r
      [] OTHER -> r

\* The promise a caller awaits in initialize() rejects: the caller rejects with it.
RejectWho(r, who, err) ==
    CASE who.kind = "init" ->
           IF r.inits[who.id].pc = "pending"
           THEN [Tell(r, who, "throw", <<>>, err) EXCEPT !.inits[who.id].pc = "done"]
           ELSE r
      [] who.kind = "call" ->
           IF r.calls[who.id].pc = "awaitInit"
           THEN [Tell(r, who, "throw", <<>>, err) EXCEPT !.calls[who.id].pc = "done"]
           ELSE r
      [] OTHER -> r

RECURSIVE ResolveAll(_, _, _)
ResolveAll(r, whos, value) ==
    IF whos = <<>> THEN r
    ELSE ResolveAll(ResolveWho(r, Head(whos), value), Tail(whos), value)

\* this.emit('ready'): the once-listeners of initialize() resolve(true).
EmitReady(r) ==
    ResolveAll([r EXCEPT !.listeners.ready = <<>>], r.listeners.ready, "true")

\* this.emit('error', error): an EventEmitter with no 'error' listener throws the
\* error; otherwise the once-listeners of initialize() resolve(false).
EmitError(r) ==
    IF r.listeners.error = <<>> THEN [r EXCEPT !.crashed = TRUE]
    ELSE ResolveAll([r EXCEPT !.listeners.error = <<>>], r.listeners.error, "false")

\* resolve(true) / reject(err) of the promise _startPersistentProcess returned for p.
StartResolve(r, p) ==
    IF ~r.procs[p].start THEN r
    ELSE ResolveWho([r EXCEPT !.procs[p].start = FALSE], r.procs[p].starter, "true")

StartReject(r, p, err) ==
    IF ~r.procs[p].start THEN r
    ELSE RejectWho([r EXCEPT !.procs[p].start = FALSE], r.procs[p].starter, err)

----------------------------------------------------------------------------
(* _startPersistentProcess and the callbacks it installs                     *)

\* An exit handler that only drops the handle.
ExitHandlerDropsHandle(r) ==
    [r EXCEPT !.process = 0, !.state = "STOPPED"]

\* this.process.on('exit', ...)
ExitHandler(r) ==
    LET r1 == [r EXCEPT !.process = 0, !.state = "STOPPED"]
    IN  IF r1.pendingPromise # 0
        THEN [PendingReject(r1, r1.pendingPromise, "Process exited unexpectedly")
                 EXCEPT !.pendingPromise = 0]
        ELSE r1

\* this.process.on('error', ...) of process p: reject is not reached when emit throws.
ErrorHandler(r, p) ==
    LET r1 == EmitError([r EXCEPT !.state = "ERROR"])
    IN  IF r1.crashed THEN r1 ELSE StartReject(r1, p, "spawn error")

\* The warmupTimeout callback of process p (5 s after the spawn).
WarmupTimeout(r, p) ==
    LET r1 == [r EXCEPT !.procs[p].warmupTimeout = FALSE]
    IN  IF r1.state = "STARTING"
        THEN StartResolve(EmitReady([r1 EXCEPT !.state = "READY"]), p)
        ELSE r1

\* .then of the warmup of process p
WarmupThen(r, p) ==
    StartResolve(EmitReady([r EXCEPT !.procs[p].warmupTimeout = FALSE,
                                     !.state = "READY"]), p)

\* A catch handler that gives up whatever process is held.
WarmupCatchAlwaysRejects(r, p, err) ==
    StartReject([r EXCEPT !.procs[p].warmupTimeout = FALSE, !.state = "ERROR"],
                p, err)

\* .catch of the warmup of process p
WarmupCatch(r, p, err) ==
    LET r1 == [r EXCEPT !.procs[p].warmupTimeout = FALSE]
    IN  IF r1.process # 0 /\ r1.procs[r1.process].pid
        THEN StartResolve(EmitReady([r1 EXCEPT !.state = "READY"]), p)
        ELSE StartReject([r1 EXCEPT !.state = "ERROR"], p, err)

\* _startPersistentProcess on behalf of who; outcome is what spawn() does:
\* "ok", or no process ("fail": stdin still writable, "failClosed": not), and
\* then the child's 'error' event follows from process.nextTick, before any
\* promise microtask.
_startPersistentProcess(r, who, outcome) ==
    LET p == Len(r.procs) + 1
        r1 == [r EXCEPT !.state = "STARTING",
                        !.stats.coldStarts = @ + 1,
                        !.procs = Append(@, [NewProc(outcome) EXCEPT !.starter = who]),
                        !.process = p]
        r2 == IF CanSend(r1) THEN _sendMessage(r1, 0)
              ELSE [r1 EXCEPT !.micro = Append(@, Job("warmupThrow", p, FALSE,
                                                       "Process not running"))]
    IN  IF outcome = "ok" THEN r2 ELSE ErrorHandler(r2, p)

\* initialize() without its READY test
initializeStartsAgain(r, who, outcome) ==
    IF mode # "persistent" THEN ResolveWho(r, who, "true")
    ELSE IF r.state = "STARTING"
    THEN [r EXCEPT !.listeners.ready = Append(@, who),
                   !.listeners.error = Append(@, who)]
    ELSE _startPersistentProcess(r, who, outcome)

\* initialize(), called by who
initialize(r, who, outcome) ==
    IF mode # "persistent" THEN ResolveWho(r, who, "true")
    ELSE IF r.state = "READY" THEN ResolveWho(r, who, "true")
    ELSE IF r.state = "STARTING"
    THEN [r EXCEPT !.listeners.ready = Append(@, who),
                   !.listeners.error = Append(@, who)]
    ELSE _startPersistentProcess(r, who, outcome)

----------------------------------------------------------------------------
(* _persistentComplete                                                      *)

NotReadyError(st) ==
    CASE st = "STOPPED" -> "Provider not ready: STOPPED"
      [] st = "STARTING" -> "Provider not ready: STARTING"
      [] st = "BUSY" -> "Provider not ready: BUSY"
      [] OTHER -> "Provider not ready: ERROR"

Throw(r, c, err) ==
    [Tell(r, Who("call", c), "throw", <<>>, err) EXCEPT !.calls[c].pc = "done"]

\* A readiness check that sends the request even when the provider is not READY.
AfterWaitSendsAnyway(r, c) ==
    IF ~CanSend(r) THEN Throw(r, c, NotReadyError(r.state))
    ELSE Throw(_sendMessage(r, c), c, NotReadyError(r.state))

\* From the readiness check (line 352) on.
AfterWait(r, c) ==
    IF r.state # "READY" THEN Throw(r, c, NotReadyError(r.state))
    ELSE IF ~CanSend(r) THEN Throw(r, c, "Process not running")
    ELSE [_sendMessage(r, c) EXCEPT !.calls[c].pc = "awaitTurn"]

\* A caller that does not wait for READY but writes its request at once.
AfterInitWritesAtOnce(r, c) ==
    IF ~CanSend(r) THEN Throw(r, c, "Process not running")
    ELSE [_sendMessage(r, c) EXCEPT !.calls[c].pc = "awaitTurn"]

\* From the busy check (line 341) on: park on the poll interval, or go on.
AfterInit(r, c) ==
    IF r.state = "BUSY" THEN [r EXCEPT !.calls[c].pc = "poll"]
    ELSE AfterWait(r, c)

NewCall == [pc |-> "running"]
NewInit == [pc |-> "pending"]

\* A complete() that does not initialize a stopped provider.
_persistentCompleteAsIs(r, outcome) ==
    AfterInit([r EXCEPT !.calls = Append(@, NewCall)], Len(r.calls) + 1)

\* complete() in persistent mode, as call number Len(calls) + 1
_persistentComplete(r, outcome) ==
    LET c == Len(r.calls) + 1
        r1 == [r EXCEPT !.calls = Append(@, NewCall)]
    IN  IF r1.state = "STOPPED"
        THEN initialize([r1 EXCEPT !.calls[c].pc = "awaitInit"], Who("call", c), outcome)
        ELSE AfterInit(r1, c)

----------------------------------------------------------------------------
(* api mode                                                                 *)

\* message.content of an API response
ApiContents == { <<ToolBlock>>, <<ToolBlock, TextBlock(<<"a">>)>> }

\* message.content.find(c => c.type === 'text'), its text or ''
FirstText(content) ==
    LET texts == SelectSeq(content, LAMBDA b : b.type = "text")
    IN  IF texts = <<>> THEN <<>> ELSE Head(texts).text

\* _anthropicAPI up to the request, as call number Len(calls) + 1; sdk tells
\* whether _initAnthropicClient succeeds when there is no client yet.
_anthropicAPI(r, sdk) ==
    LET c == Len(r.calls) + 1
        r1 == [r EXCEPT !.calls = Append(@, NewCall)]
    IN  IF ~r1.client /\ ~sdk THEN Throw(r1, c, "client error")
        ELSE [r1 EXCEPT !.client = TRUE, !.calls[c].pc = "api"]

\* The request of call c is answered with content.
ApiThen(r, c, content) ==
    [Tell(CountCompletion(r), Who("call", c), "text", FirstText(content), "")
        EXCEPT !.calls[c].pc = "done"]

\* The request of call c fails.
ApiCatch(r, c) ==
    Throw([r EXCEPT !.stats.errors = @ + 1], c, "api error")

\* complete(), as call number Len(calls) + 1
complete(r, outcome, sdk) ==
    IF mode = "persistent" THEN _persistentComplete(r, outcome)
    ELSE _anthropicAPI(r, sdk)

\* An isReady() that reports the state in both modes.
isReadyByState(r) == r.state = "READY"

\* isReady()
isReady(r) ==
    IF mode = "persistent" THEN r.state = "READY" ELSE TRUE

----------------------------------------------------------------------------
(* The microtask queue                                                      *)

RunJob(r, j) ==
    CASE j.job = "warmup" ->
           IF j.ok THEN WarmupThen(r, r.turns[j.id].proc)
           ELSE WarmupCatch(r, r.turns[j.id].proc, j.err)
      [] j.job = "warmupThrow" -> WarmupCatch(r, j.id, j.err)
      [] j.job = "afterInit" -> AfterInit(r, j.id)
      [] j.job = "afterWait" -> AfterWait(r, j.id)
      [] OTHER -> r

\* Run the microtasks to completion; nothing runs once an exception escaped.
RECURSIVE Drain(_)
Drain(r) ==
    IF r.crashed \/ r.micro = <<>> THEN r
    ELSE Drain(RunJob([r EXCEPT !.micro = Tail(@)], Head(r.micro)))

----------------------------------------------------------------------------
(* shutdown                                                                 *)

\* child.kill(sig) on process p: a signal reaches a running process only.
Kill(r, p, sig) ==
    IF ~r.procs[p].alive THEN r
    ELSE IF sig = "SIGTERM" THEN [r EXCEPT !.procs[p].sigterm = @ + 1]
    ELSE [r EXCEPT !.procs[p].sigkill = @ + 1]

\* A shutdown() that also marks the provider stopped when it resolves.
ShutdownDoneStops(r, sd) ==
    IF r.shuts[sd].done THEN r
    ELSE [Tell(r, Who("shutdown", sd), "void", <<>>, "")
             EXCEPT !.shuts[sd].done = TRUE, !.state = "STOPPED"]

ShutdownDone(r, sd) ==
    IF r.shuts[sd].done THEN r
    ELSE [Tell(r, Who("shutdown", sd), "void", <<>>, "") EXCEPT !.shuts[sd].done = TRUE]

\* shutdown(), as call number Len(shuts) + 1
shutdown(r) ==
    LET sd == Len(r.shuts) + 1
        p == r.process
    IN  IF mode # "persistent" \/ p = 0
        THEN ShutdownDone([r EXCEPT !.shuts = Append(@,
                 [proc |-> 0, sigtermTimer |-> FALSE, forceKillTimeout |-> FALSE,
                  done |-> FALSE])], sd)
        ELSE [r EXCEPT !.shuts = Append(@,
                 [proc |-> p, sigtermTimer |-> TRUE, forceKillTimeout |-> TRUE,
                  done |-> FALSE]),
                       !.procs[p].stdinWritable = FALSE,
                       !.procs[p].exitListeners = Append(@, sd)]

\* An exit listener that cancels the hard deadline but does not resolve.
ShutdownExitUnresolved(r, sd) ==
    [r EXCEPT !.shuts[sd].forceKillTimeout = FALSE,
              !.process = 0,
              !.state = "STOPPED"]

\* The once('exit') listener of shutdown call sd
ShutdownExit(r, sd) ==
    ShutdownDone([r EXCEPT !.shuts[sd].forceKillTimeout = FALSE,
                           !.process = 0,
                           !.state = "STOPPED"], sd)

\* The 1 s timer of shutdown call sd
SigtermTimer(r, sd) ==
    LET r1 == [r EXCEPT !.shuts[sd].sigtermTimer = FALSE]
    IN  IF r1.process # 0 THEN Kill(r1, r1.process, "SIGTERM") ELSE r1

\* A force-kill timer that keeps the handle of the process it killed.
ForceKillTimeoutKeepsHandle(r, sd) ==
    LET r1 == [r EXCEPT !.shuts[sd].forceKillTimeout = FALSE]
        r2 == IF r1.process # 0 THEN Kill(r1, r1.process, "SIGKILL") ELSE r1
    IN  ShutdownDone(r2, sd)

\* The 5 s timer of shutdown call sd
ForceKillTimeout(r, sd) ==
    LET r1 == [r EXCEPT !.shuts[sd].forceKillTimeout = FALSE]
        r2 == IF r1.process # 0 THEN Kill(r1, r1.process, "SIGKILL") ELSE r1
    IN  ShutdownDone([r2 EXCEPT !.process = 0, !.state = "STOPPED"], sd)

RECURSIVE RunExitListeners(_, _)
RunExitListeners(r, sds) ==
    IF sds = <<>> THEN r
    ELSE RunExitListeners(ShutdownExit(r, Head(sds)), Tail(sds))

\* The 'exit' event of process p: the handler of _startPersistentProcess, then
\* the once-listeners shutdown() attached, in the order they were attached.
\* The process is gone, and its pipes with it.
EmitExit(r, p) ==
    RunExitListeners(ExitHandler([r EXCEPT !.procs[p].alive = FALSE,
                                           !.procs[p].stdinWritable = FALSE,
                                           !.procs[p].inbox = <<>>,
                                           !.procs[p].exitListeners = <<>>]),
                     r.procs[p].exitListeners)

----------------------------------------------------------------------------
(* The subprocess side of the pipe                                          *)

\* Process p has written msg: the request at the head of its inbox is answered
\* when msg is a result or an error.
Wrote(r, p, msg) ==
    IF msg.type \in {"result", "error"}
    THEN [r EXCEPT !.procs[p].inbox = Tail(@)]
    ELSE r

\* The text accumulated for the open turn is still short of the bound.
MayStream(r) ==
    r.pendingPromise = 0 \/ Len(r.turns[r.pendingPromise].response) < MaxFrags

\* What process p can write next: a 'system' line at any time, and an answer
\* to the oldest request it has read.
CanWrite(r, p) ==
    {SystemMsg}
    \cup IF r.procs[p].inbox = <<>> THEN {}
         ELSE LET t == Head(r.procs[p].inbox)
              IN  (IF MayStream(r) THEN AssistantMsgs(t) ELSE {})
                  \cup ResultMsgs(t) \cup ErrorMsgs(t)

----------------------------------------------------------------------------
(* The stdout pipe: bytes, characters, lines                                *)

\* No 'setEncoding' is called on the pipe, so a 'data' event carries a Buffer of
\* bytes.  A byte and a character are records of one shape: json = 0 is an
\* ordinary byte/character ch; json = 1 and json = 2 are the two halves of the
\* JSON text of a message around the characters of its "result" string.
Blank == Message("", 0, <<>>, <<>>, "", "")
Char(ch) == [json |-> 0, ch |-> ch, of |-> Blank]
NL == Char("\n")
SP == Char(" ")
NotJson == Char("x")             \* a character no JSON text of the protocol holds
EAcute == "e'"                   \* a character of two bytes in UTF-8
Replacement == "U+FFFD"          \* what decoding puts for a malformed byte sequence
Lead == Char("0xC3")             \* the bytes of EAcute
Cont == Char("0xA9")

Skeleton(msg) == [msg EXCEPT !.result = <<>>]
J(half, msg) == [json |-> half, ch |-> "", of |-> Skeleton(msg)]

\* The UTF-8 bytes of a string.
RECURSIVE UTF8(_)
UTF8(str) ==
    IF str = <<>> THEN <<>>
    ELSE (IF Head(str) = EAcute THEN <<Lead, Cont>> ELSE <<Char(Head(str))>>)
         \o UTF8(Tail(str))

\* The bytes of the JSON text a subprocess writes for msg.
Encode(msg) == <<J(1, msg)>> \o UTF8(msg.result) \o <<J(2, msg)>>

\* The bytes of the line a subprocess writes for msg.
Line(msg) == Encode(msg) \o <<NL>>

\* A line that is not JSON.
NoiseLine == <<NotJson, NL>>

\* data.toString(): the bytes of one chunk decoded as UTF-8, each byte that is
\* no part of a well-formed sequence inside the chunk becoming U+FFFD.
RECURSIVE toString(_)
toString(data) ==
    IF data = <<>> THEN <<>>
    ELSE IF Head(data) = Lead
         THEN IF Len(data) >= 2 /\ data[2] = Cont
              THEN <<Char(EAcute)>> \o toString(SubSeq(data, 3, Len(data)))
              ELSE <<Char(Replacement)>> \o toString(Tail(data))
         ELSE IF Head(data) = Cont
              THEN <<Char(Replacement)>> \o toString(Tail(data))
              ELSE <<Head(data)>> \o toString(Tail(data))

\* str.split('\n'): the pieces between the newlines, at least one piece.
RECURSIVE Split(_)
Split(str) ==
    IF \A i \in 1..Len(str) : str[i] # NL THEN <<str>>
    ELSE LET i == CHOOSE k \in 1..Len(str) :
                      str[k] = NL /\ \A j \in 1..(k - 1) : str[j] # NL
         IN  <<SubSeq(str, 1, i - 1)>> \o Split(SubSeq(str, i + 1, Len(str)))

\* line.trim()
RECURSIVE Trim(_)
Trim(line) ==
    IF line = <<>> THEN <<>>
    ELSE IF Head(line) = SP THEN Trim(Tail(line))
    ELSE IF line[Len(line)] = SP THEN Trim(SubSeq(line, 1, Len(line) - 1))
    ELSE line

\* JSON.parse(trimmed) returns: the text is the two halves of one message's JSON
\* around characters a JSON string may hold.
IsJson(trimmed) ==
    /\ Len(trimmed) >= 2
    /\ trimmed[1].json = 1
    /\ trimmed[Len(trimmed)].json = 2
    /\ trimmed[Len(trimmed)].of = trimmed[1].of
    /\ \A i \in 2..(Len(trimmed) - 1) :
          trimmed[i].json = 0 /\ trimmed[i] \notin {NotJson, NL}

\* JSON.parse(trimmed)
JSONparse(trimmed) ==
    [trimmed[1].of EXCEPT
        !.result = [i \in 1..(Len(trimmed) - 2) |-> trimmed[i + 1].ch]]

\* The catch block of _handleStdout: the line is ignored (out records it, for
\* the properties only).
Ignored == Outcome(Who("noise", 0), "void", <<>>, "")

\* A catch block that counts the line as an error.
IgnoreCountsError(r) ==
    [r EXCEPT !.out = Append(@, Ignored), !.stats.errors = @ + 1]

Ignore(r) == [r EXCEPT !.out = Append(@, Ignored)]

\* The for loop of _handleStdout; parsed collects the messages handed to
\* _handleMessage.
RECURSIVE HandleLines(_, _)
HandleLines(r, lines) ==
    IF lines = <<>> THEN r
    ELSE LET trimmed == Trim(Head(lines))
             next == IF trimmed = <<>> THEN r
                     ELSE IF ~IsJson(trimmed) THEN Ignore(r)
                     ELSE [_handleMessage(r, JSONparse(trimmed)) EXCEPT
                              !.parsed = Append(@, JSONparse(trimmed))]
         IN  HandleLines(next, Tail(lines))

\* _handleStdout(data)
_handleStdout(r, data) ==
    LET lines == Split(r.stdoutBuffer \o toString(data))
    IN  HandleLines([r EXCEPT !.stdoutBuffer = lines[Len(lines)]],
                    SubSeq(lines, 1, Len(lines) - 1))

----------------------------------------------------------------------------
(* The steps                                                                *)

SpawnOutcomes == {"ok", "fail", "failClosed"}

\* Another public call may be issued.
MayCall(r) == Len(r.calls) + Len(r.inits) + Len(r.shuts) < MaxOps

\* No request has been answered yet.
NoResponse ==
    [status |-> 0, strategy |-> "", removed |-> 0, memories |-> {}, dryRun |-> FALSE]

\* The server's table and index are empty.
NoMemories == memories = {} /\ vectorIndex = {}

\* The EmbeddingService as its constructor leaves it.
NotLoaded ==
    /\ embedder = [initialized |-> FALSE, initializing |-> FALSE, extractor |-> FALSE,
                   initTimeMs |-> 0]
    /\ onceInitialized = <<>>
    /\ embedInits = <<>>

Stopped ==
    /\ state = "STOPPED"
    /\ process = 0
    /\ pendingPromise = 0
    /\ stats = [completions |-> 0, totalTimeMs |-> 0, avgTimeMs |-> 0, errors |-> 0,
                coldStarts |-> 0]
    /\ listeners = [ready |-> <<>>, error |-> <<>>]
    /\ procs = <<>>
    /\ turns = <<>>
    /\ calls = <<>>
    /\ inits = <<>>
    /\ shuts = <<>>
    /\ crashed = FALSE
    /\ last = <<>>
    /\ mode \in Modes
    /\ client \in (IF mode = "api" THEN BOOLEAN ELSE {FALSE})
    /\ stdoutBuffer = <<>>
    /\ read = <<>>
    /\ heard = <<>>
    /\ res = NoResponse

Init == Stopped /\ NoMemories /\ NotLoaded /\ wire = "plain" /\ pipe = <<>> /\ clock = "frozen"

InitRich == Stopped /\ NoMemories /\ NotLoaded /\ wire = "rich" /\ pipe = <<>> /\ clock = "frozen"

InitNoisy == Stopped /\ NoMemories /\ NotLoaded /\ wire = "noisy" /\ pipe = <<>> /\ clock = "frozen"

InitClock == Stopped /\ NoMemories /\ NotLoaded /\ wire = "plain" /\ pipe = <<>> /\ clock = "running"

\* A caller calls initialize().
Initialize ==
    /\ ~crashed
    /\ MayCall(Cur)
    /\ state \in {"READY", "STARTING"} \/ Len(procs) < MaxProcs
    /\ \E outcome \in SpawnOutcomes :
         Commit(Drain(initialize([Cur EXCEPT !.inits = Append(@, NewInit)],
                                 Who("init", Len(inits) + 1), outcome)))

\* A caller calls complete().
Complete ==
    /\ ~crashed
    /\ MayCall(Cur)
    /\ state # "STOPPED" \/ Len(procs) < MaxProcs
    /\ \E outcome \in SpawnOutcomes, sdk \in BOOLEAN :
         Commit(Drain(complete(Cur, outcome, sdk)))

\* A caller calls shutdown().
Shutdown ==
    /\ ~crashed
    /\ MayCall(Cur)
    /\ Commit(Drain(shutdown(Cur)))

\* A 'data' event of the stdout of process p, which wrote the line of msg,
\* after a line that is not JSON when noisy.
StdoutData(r, p, noisy, msg, elapsed) ==
    Drain(_handleStdout([Wrote(r, p, msg) EXCEPT !.elapsed = elapsed],
                        (IF noisy THEN NoiseLine ELSE <<>>) \o Line(msg)))

OnStdoutData(p, noisy, msg) ==
    /\ ~crashed
    /\ procs[p].alive
    /\ msg \in CanWrite(Cur, p)
    /\ \E elapsed \in Elapsed : Commit(StdoutData(Cur, p, noisy, msg, elapsed))

OnStdoutMsg(p, msg) == OnStdoutData(p, FALSE, msg)

\* A noisy subprocess also writes lines that are not JSON.
Noises == IF wire = "noisy" THEN BOOLEAN ELSE {FALSE}

OnStdout(p) ==
    \E msg \in CanWrite(Cur, p), noisy \in Noises : OnStdoutData(p, noisy, msg)

\* The 'exit' event of process p.
OnExit(p) ==
    /\ ~crashed
    /\ procs[p].alive
    /\ Commit(Drain(EmitExit(Cur, p)))

\* The timeout of turn t fires; timers of equal delay fire in the order armed.
OnTurnTimeout(t) ==
    /\ ~crashed
    /\ turns[t].timer
    /\ \A u \in 1..(t - 1) : ~turns[u].timer
    /\ Commit(Drain(TurnTimeout(Cur, t)))

\* The warmup timer of process p fires.
OnWarmupTimeout(p) ==
    /\ ~crashed
    /\ procs[p].warmupTimeout
    /\ \A q \in 1..(p - 1) : ~procs[q].warmupTimeout
    /\ Commit(Drain(WarmupTimeout(Cur, p)))

\* The poll interval of the parked call c finds the provider READY (a tick
\* that finds anything else changes nothing).
OnPollTick(c) ==
    /\ ~crashed
    /\ calls[c].pc = "poll"
    /\ state = "READY"
    /\ Commit(Drain([Cur EXCEPT !.calls[c].pc = "running",
                                !.micro = <<Job("afterWait", c, TRUE, "")>>]))

\* The API request of call c is answered, or fails.
OnApiResponse(c) ==
    /\ ~crashed
    /\ calls[c].pc = "api"
    /\ \/ \E content \in ApiContents, elapsed \in Elapsed :
            Commit(Drain(ApiThen([Cur EXCEPT !.elapsed = elapsed], c, content)))
       \/ Commit(Drain(ApiCatch(Cur, c)))

\* The 1 s timer of shutdown call sd fires.
OnSigtermTimer(sd) ==
    /\ ~crashed
    /\ shuts[sd].sigtermTimer
    /\ Commit(Drain(SigtermTimer(Cur, sd)))

\* The 5 s timer of shutdown call sd fires, after the 1 s timer.
OnForceKillTimeout(sd) ==
    /\ ~crashed
    /\ shuts[sd].forceKillTimeout
    /\ ~shuts[sd].sigtermTimer
    /\ Commit(Drain(ForceKillTimeout(Cur, sd)))

\* What happens without a new public call.
Events ==
    \/ \E p \in 1..Len(procs) : OnStdout(p)
    \/ \E p \in 1..Len(procs) : OnExit(p)
    \/ \E t \in 1..Len(turns) : OnTurnTimeout(t)
    \/ \E p \in 1..Len(procs) : OnWarmupTimeout(p)
    \/ \E c \in 1..Len(calls) : OnPollTick(c)
    \/ \E c \in 1..Len(calls) : OnApiResponse(c)

ShutdownEvents ==
    \/ \E sd \in 1..Len(shuts) : OnSigtermTimer(sd)
    \/ \E sd \in 1..Len(shuts) : OnForceKillTimeout(sd)

Next == Initialize \/ Complete \/ Shutdown \/ Events \/ ShutdownEvents

Spec == Init /\ [][Next]_vars

\* The same program with subprocesses that also write lines that are not JSON.
SpecNoisy == InitNoisy /\ [][Next]_vars

\* The same program under a wall clock that moves.
SpecClock == InitClock /\ [][Next]_vars

\* The same with subprocesses that write everything the protocol allows.
SpecRich == InitRich /\ [][Next]_vars

\* The first bytes of a line, without its end.
Partial == SubSeq(Line(SystemMsg), 1, 1)

\* A 'data' event of the stdout of process p carrying the beginning of a line
\* and no newline; the buffer is kept to one such piece.
OnStdoutPartial(p) ==
    /\ ~crashed
    /\ procs[p].alive
    /\ stdoutBuffer = <<>>
    /\ Commit(Drain(_handleStdout(Cur, Partial)))

InitTorn == Stopped /\ NoMemories /\ NotLoaded /\ wire = "torn" /\ pipe = <<>> /\ clock = "frozen"

NextTorn == Next \/ \E p \in 1..Len(procs) : OnStdoutPartial(p)

\* The same program with subprocesses whose lines may arrive in two pieces,
\* or stay unfinished.
SpecTorn == InitTorn /\ [][NextTorn]_vars

\* The provider used through complete() alone.
NextComplete == Complete \/ Events

SpecComplete == InitRich /\ [][NextComplete]_vars

----------------------------------------------------------------------------
(* _handleStdout on its own: a stream of bytes delivered in chunks of any   *)
(* sizes to a provider that waits for nothing.                              *)

StdoutMsgs == { Message("result", 0, <<>>, s, "", "") : s \in { <<"r">>, <<EAcute>> } }

\* The lines of a stream, without their newline: a message, a message between
\* blanks, a line that is not JSON, an empty line.
StreamLines ==
    { Encode(m) : m \in StdoutMsgs }
    \cup { <<SP>> \o Encode(m) \o <<SP>> : m \in StdoutMsgs }
    \cup { <<NotJson>>, <<>> }

\* The unterminated tail of a stream.
StreamTails == { <<>> } \cup { SubSeq(Encode(m), 1, 2) : m \in StdoutMsgs }

RECURSIVE StreamsOf(_)
StreamsOf(n) ==
    IF n = 0 THEN { <<>> }
    ELSE { l \o <<NL>> \o rest : l \in StreamLines, rest \in StreamsOf(n - 1) }

Streams ==
    { body \o tail : body \in UNION { StreamsOf(n) : n \in 0..MaxLines },
                     tail \in StreamTails }

InitStdout ==
    Stopped /\ NoMemories /\ NotLoaded /\ wire = "plain" /\ pipe \in Streams /\ clock = "frozen"

\* A 'data' event carrying the next k bytes of the stream.
OnChunk(k) ==
    /\ k \in 1..Len(pipe)
    /\ LET r == _handleStdout(Cur, SubSeq(pipe, 1, k))
       IN  /\ CommitProvider(Drain(r))
           /\ heard' = heard \o r.parsed
    /\ read' = read \o SubSeq(pipe, 1, k)
    /\ pipe' = SubSeq(pipe, k + 1, Len(pipe))
    /\ UNCHANGED <<memories, vectorIndex, res, embedder, onceInitialized, embedInits>>

NextStdout == \E k \in 1..Len(pipe) : OnChunk(k)

SpecStdout == InitStdout /\ [][NextStdout]_vars

----------------------------------------------------------------------------
(* The server's route POST /banks/:id/cleanup                               *)

Banks == {"b1", "b2"}
Strategies == {"expired", "oldest_first", "lowest_confidence", "least_accessed"}
DefaultLimit == 100                      \* limit = 100 when the body gives none
Limits == {0, 1, DefaultLimit}

\* A row of 'memories': expired stands for expires_at IS NOT NULL AND
\* expires_at < datetime('now'); last_accessed_at = 0 for NULL.
Row(id, bank_id, created_at, expired, confidence, last_accessed_at) ==
    [id |-> id, bank_id |-> bank_id, created_at |-> created_at, expired |-> expired,
     confidence |-> confidence, last_accessed_at |-> last_accessed_at,
     access_count |-> IF last_accessed_at = 0 THEN 0 ELSE 1]

\* The rows an id can have: any of bank "b1", one of bank "b2".
RowsOf(id) ==
    { Row(id, "b1", c, e, f, a) : c \in 1..2, e \in BOOLEAN, f \in 1..2, a \in {0, 2} }
    \cup { Row(id, "b2", 1, TRUE, 1, 0) }

\* The tables of at most MaxMemories rows, ids being the primary key.
RECURSIVE Tables(_)
Tables(n) ==
    IF n = 0 THEN { {} }
    ELSE LET less == Tables(n - 1)
         IN  less \cup { t \cup {row} : t \in less, row \in RowsOf(n) }

\* COALESCE(last_accessed_at, created_at)
Coalesce(row) == IF row.last_accessed_at = 0 THEN row.created_at ELSE row.last_accessed_at

\* Row a comes strictly before row b in the ORDER BY of the strategy.
Before(strategy, a, b) ==
    CASE strategy = "oldest_first" -> a.created_at < b.created_at
      [] strategy = "lowest_confidence" -> a.confidence < b.confidence
      [] strategy = "least_accessed" ->
           \/ Coalesce(a) < Coalesce(b)
           \/ Coalesce(a) = Coalesce(b) /\ a.access_count < b.access_count
      [] OTHER -> FALSE

\* The results the SELECT of the strategy can return (rows of equal rank come
\* in an order SQL leaves open).
Selected(rows, bankId, strategy, limit) ==
    LET mine == { row \in rows : row.bank_id = bankId }
    IN  IF strategy = "expired" THEN { { row \in mine : row.expired } }
        ELSE LET n == IF limit < 0 \/ limit > Cardinality(mine)
                      THEN Cardinality(mine) ELSE limit
             IN  { sel \in SUBSET mine :
                     /\ Cardinality(sel) = n
                     /\ \A a \in sel : \A b \in mine \ sel : ~Before(strategy, b, a) }

\* A loop that does not look at dryRun.
RemovedAnyway(sel, dryRun) == sel

\* The loop over the selected rows: removeVector and DELETE, unless dryRun.
Removed(sel, dryRun) == IF ~dryRun THEN sel ELSE {}

\* The handler, with sel what its SELECT returned: the table, the index and
\* the response after it.
cleanup(rows, index, bankId, strategy, limit, dryRun, sel) ==
    IF bankId \notin Banks
    THEN [memories |-> rows, vectorIndex |-> index,
          res |-> [NoResponse EXCEPT !.status = 404]]
    ELSE IF strategy \notin Strategies
    THEN [memories |-> rows, vectorIndex |-> index,
          res |-> [NoResponse EXCEPT !.status = 400]]
    ELSE [memories |-> rows \ Removed(sel, dryRun),
          vectorIndex |-> index \ { row.id : row \in Removed(sel, dryRun) },
          res |-> [status |-> 200, strategy |-> strategy,
                        removed |-> Cardinality(sel),
                        memories |-> { row.id : row \in sel },
                        dryRun |-> dryRun]]

\* A client posts /banks/bankId/cleanup.
Cleanup(bankId, strategy, limit, dryRun) ==
    \E sel \in Selected(memories, bankId, strategy, limit) :
        LET after == cleanup(memories, vectorIndex, bankId, strategy, limit, dryRun, sel)
        IN  /\ memories' = after.memories
            /\ vectorIndex' = after.vectorIndex
            /\ res' = after.res
            /\ UNCHANGED <<state, process, pendingPromise, stats, listeners, procs,
                           turns, calls, inits, shuts, crashed, last, wire, mode,
                           client, stdoutBuffer, pipe, read, heard, clock,
                           embedder, onceInitialized, embedInits>>

InitCleanup ==
    /\ Stopped
    /\ NotLoaded
    /\ mode = "persistent"
    /\ wire = "plain" /\ pipe = <<>> /\ clock = "frozen"
    /\ memories \in Tables(MaxMemories)
    /\ vectorIndex \in SUBSET { row.id : row \in memories }

NextCleanup ==
    \E bankId \in Banks \cup {"none"}, strategy \in Strategies \cup {"other"},
       limit \in Limits, dryRun \in BOOLEAN :
        Cleanup(bankId, strategy, limit, dryRun)

SpecCleanup == InitCleanup /\ [][NextCleanup]_vars

----------------------------------------------------------------------------
(* EmbeddingService.initialize                                              *)

MaxEmbedInits == 5   \* initialize() calls on the EmbeddingService in one run

\* What an initialize() call is doing: awaiting import(), awaiting pipeline(),
\* awaiting the 'initialized' event, or settled ("true", "throw").
EmbedInit(pc) == [pc |-> pc]

\* emit('initialized'): every once-listener resolves its call with true.
RECURSIVE EmitInitialized(_, _)
EmitInitialized(ws, es) ==
    IF ws = <<>> THEN es
    ELSE EmitInitialized(Tail(ws), [es EXCEPT ![Head(ws)] = EmbedInit("true")])

\* The try block from the resolution of pipeline() on.
Loaded(e, elapsed) ==
    /\ embedder' = [initialized |-> TRUE, initializing |-> FALSE, extractor |-> TRUE,
                    initTimeMs |-> elapsed]
    /\ embedInits' = EmitInitialized(onceInitialized,
                                     [embedInits EXCEPT ![e] = EmbedInit("true")])
    /\ onceInitialized' = <<>>

\* The catch block: emit('error') either returns or throws the same error, and
\* initialize() rejects with it in both cases; no 'initialized' is emitted.
LoadFailed(e) ==
    /\ embedder' = [embedder EXCEPT !.initializing = FALSE]
    /\ embedInits' = [embedInits EXCEPT ![e] = EmbedInit("throw")]
    /\ UNCHANGED onceInitialized

ProviderUnchanged ==
    UNCHANGED <<state, process, pendingPromise, stats, listeners, procs, turns,
                calls, inits, shuts, crashed, last, wire, mode, client,
                stdoutBuffer, pipe, read, heard, clock, memories, vectorIndex, res>>

\* A caller calls initialize() on the EmbeddingService.
EmbedInitialize ==
    /\ Len(embedInits) < MaxEmbedInits
    /\ LET e == Len(embedInits) + 1
       IN  IF embedder.initialized
           THEN /\ embedInits' = Append(embedInits, EmbedInit("true"))
                /\ UNCHANGED <<embedder, onceInitialized>>
           ELSE IF embedder.initializing
           THEN /\ embedInits' = Append(embedInits, EmbedInit("waiting"))
                /\ onceInitialized' = Append(onceInitialized, e)
                /\ UNCHANGED embedder
           ELSE /\ embedInits' = Append(embedInits, EmbedInit("import"))
                /\ embedder' = [embedder EXCEPT !.initializing = TRUE]
                /\ UNCHANGED onceInitialized
    /\ ProviderUnchanged

\* import('@xenova/transformers') of call e settles.
OnImport(e) ==
    /\ embedInits[e].pc = "import"
    /\ \/ /\ embedInits' = [embedInits EXCEPT ![e] = EmbedInit("pipeline")]
          /\ UNCHANGED <<embedder, onceInitialized>>
       \/ LoadFailed(e)
    /\ ProviderUnchanged

\* pipeline(...) of call e settles.
OnPipeline(e) ==
    /\ embedInits[e].pc = "pipeline"
    /\ \/ \E elapsed \in Elapsed : Loaded(e, elapsed)
       \/ LoadFailed(e)
    /\ ProviderUnchanged

InitEmbedding ==
    /\ Stopped /\ NoMemories /\ NotLoaded
    /\ mode = "persistent" /\ wire = "plain" /\ pipe = <<>> /\ clock = "running"

NextEmbedding ==
    \/ EmbedInitialize
    \/ \E e \in 1..Len(embedInits) : OnImport(e)
    \/ \E e \in 1..Len(embedInits) : OnPipeline(e)

SpecEmbedding == InitEmbedding /\ [][NextEmbedding]_vars

----------------------------------------------------------------------------
(* Properties                                                               *)

Procs == 1..Len(procs)
Turns == 1..Len(turns)
Calls == 1..Len(calls)

\* The step told who this outcome.
Told(out, who, ret, val, err) ==
    \E i \in 1..Len(out) : out[i] = Outcome(who, ret, val, err)

\* Who awaits the promise of turn t.
Awaiter(t) ==
    IF turns[t].owner = 0 THEN Who("warmup", t) ELSE Who("call", turns[t].owner)

OpenTurns == { t \in Turns : turns[t].open }

\* C1: through complete() alone, at most one turn is open at any instant, and
\* it is the one in this.pendingPromise: a complete() that finds the provider
\* BUSY parks, and writes its request only once no turn is open.
C1_OneOpenTurn ==
    /\ Cardinality(OpenTurns) <= 1
    /\ OpenTurns \subseteq {pendingPromise}
    /\ \A c \in Calls : calls[c].pc = "poll" =>
         \A t \in Turns : turns[t].owner # c

\* A complete() is parked while the turn of an earlier complete() is open.
C1_Witness ==
    \E c \in Calls :
        /\ calls[c].pc = "poll"
        /\ pendingPromise # 0
        /\ turns[pendingPromise].open
        /\ turns[pendingPromise].owner \notin {0, c}

\* C2: a fragment, result or error the subprocess writes in answer to a
\* request other than the one of the open turn (a late answer to a turn that
\* timed out) settles no turn and is accumulated into none.
C2_AnswersSettleTheirOwnTurn ==
    [][\A p \in Procs : \A msg \in CanWrite(Cur, p) :
          ( /\ msg.type \in {"assistant", "result", "error"}
            /\ msg.forTurn # pendingPromise
            /\ OnStdoutMsg(p, msg) )
          => /\ turns' = turns
             /\ pendingPromise' = pendingPromise
             /\ last' = <<>>]_vars

\* C3: when a process exits while this.pendingPromise holds a turn, the step
\* that handles the exit rejects the turn's caller with 'Process exited
\* unexpectedly', clears this.pendingPromise and cancels the turn's timer.
C3_ExitRejectsOpenTurn ==
    [][\A p \in Procs :
          (pendingPromise # 0 /\ OnExit(p))
          => LET t == pendingPromise
             IN  /\ turns[t].open
                 /\ Told(last', Awaiter(t), "throw", <<>>, "Process exited unexpectedly")
                 /\ pendingPromise' = 0
                 /\ ~turns'[t].open
                 /\ ~turns'[t].timer
                 /\ turns[t].owner # 0 => calls'[turns[t].owner].pc = "done"]_vars

\* A complete() caller has just been rejected by the exit of the process.
C3_Witness ==
    \E i \in 1..Len(last) :
        /\ last[i].who.kind = "call"
        /\ last[i].ret = "throw"
        /\ last[i].err = "Process exited unexpectedly"
        /\ calls[last[i].who.id].pc = "done"
        /\ pendingPromise = 0

NotReadyErrors == { NotReadyError(st) : st \in ProviderState }

\* Every process spawned so far started, and exited without a shutdown() call.
ExitedUnexpectedly ==
    /\ procs # <<>>
    /\ shuts = <<>>
    /\ process = 0
    /\ \A p \in Procs : procs[p].pid /\ ~procs[p].alive

\* C4: after the process has exited unexpectedly (also during its warmup), the
\* next complete() spawns a new process and is not rejected with a
\* 'Provider not ready' error.
C4_NextCompleteRespawns ==
    [][(Complete /\ ExitedUnexpectedly)
       => /\ Len(procs') = Len(procs) + 1
          /\ \A i \in 1..Len(last') : last'[i].err \notin NotReadyErrors]_vars

\* C5: no complete() caller waits forever: while a call is unsettled, some
\* event that needs no new public call (a message, an exit, a timer) is still
\* to come.
C5_NoCallerWaitsForever ==
    (~crashed /\ \E c \in Calls : calls[c].pc # "done")
    => \/ \E p \in Procs : procs[p].alive      \* it can still write, or exit
       \/ ENABLED (Events \/ ShutdownEvents)

\* C6: no failure event raises an uncaught exception in the hosting process.
C6_NoUncaughtException == crashed = FALSE

\* The warmup of the process an initialize() call spawned is still open.
WarmupOpen ==
    /\ process # 0
    /\ procs[process].alive
    /\ procs[process].start
    /\ procs[process].starter.kind = "init"
    /\ pendingPromise # 0
    /\ turns[pendingPromise].owner = 0
    /\ turns[pendingPromise].proc = process
    /\ turns[pendingPromise].open

\* C7: an initialize() issued while the warmup of a first initialize() is
\* still open spawns no process.
C7_SecondInitializeJoins ==
    [][(Initialize /\ WarmupOpen) => Len(procs') = Len(procs)]_vars

LiveProcs == { p \in Procs : procs[p].alive }

\* C8: at most one spawned subprocess that has not exited exists at any time.
C8_AtMostOneLiveProcess == Cardinality(LiveProcs) <= 1

\* The text blocks of msg.message.content, and their texts put end to end.
TextBlocksOf(content) == SelectSeq(content, LAMBDA b : b.type = "text")

RECURSIVE Concat(_)
Concat(blocks) ==
    IF blocks = <<>> THEN <<>> ELSE Head(blocks).text \o Concat(Tail(blocks))

ErrorText(msg) ==
    Head(SelectSeq(<<msg.errorMessage, msg.message, "Unknown error">>,
                   LAMBDA e : e # ""))

\* The step that closed the turn went on to write the request of a complete()
\* that was waiting for the provider.
DispatchedNext ==
    /\ pendingPromise' = Len(turns) + 1
    /\ Len(turns') = Len(turns) + 1
    /\ turns'[pendingPromise'].owner # 0
    /\ turns'[pendingPromise'].open
    /\ turns'[pendingPromise'].proc = process
    /\ state' = "BUSY"

\* C10: an error message received while a turn is open rejects that turn's
\* caller with the decoded message and settles no other turn, clears
\* this.pendingPromise, adds one to stats.errors, leaves the process handle
\* and the processes as they are and the provider READY (or already BUSY with
\* the request of the complete() that was waiting for it).
C10_TurnErrorRejectsCaller ==
    [][\A p \in Procs : \A msg \in CanWrite(Cur, p) :
          (pendingPromise # 0 /\ msg.type = "error" /\ OnStdoutMsg(p, msg))
          => LET t == pendingPromise
             IN  /\ Told(last', Awaiter(t), "throw", <<>>, ErrorText(msg))
                 /\ \A u \in Turns \ {t} : turns'[u].open = turns[u].open
                 /\ ~turns'[t].open
                 /\ stats'.errors = stats.errors + 1
                 /\ process' = process
                 /\ \A q \in Procs : procs'[q].alive = procs[q].alive
                 /\ \/ pendingPromise' = 0 /\ state' = "READY"
                    \/ DispatchedNext]_vars

\* The signals delivered so far, per process.
Signals == [p \in Procs |-> <<procs[p].sigterm, procs[p].sigkill>>]

\* C11: when the timeout of a turn fires, the turn's caller is rejected with
\* 'Timeout', this.pendingPromise is cleared and the provider is READY (or
\* already BUSY with the request of a complete() that was waiting), and the
\* process handle is as before: nothing is spawned, signalled or killed.
C11_TimeoutKeepsProcess ==
    [][\A t \in Turns :
          OnTurnTimeout(t)
          => /\ Told(last', Awaiter(t), "throw", <<>>, "Timeout")
             /\ ~turns'[t].open
             /\ process' = process
             /\ Len(procs') = Len(procs)
             /\ \A q \in Procs : /\ procs'[q].alive = procs[q].alive
                                 /\ procs'[q].sigterm = procs[q].sigterm
                                 /\ procs'[q].sigkill = procs[q].sigkill
             /\ \/ pendingPromise' = 0 /\ state' = "READY"
                \/ DispatchedNext]_vars

\* C12: once the process a shutdown() call is shutting down has exited, the
\* timers of that call deliver no signal any more, to no process.
C12_NoSignalAfterExit ==
    [][\A sd \in 1..Len(shuts) :
          ( /\ shuts[sd].proc # 0
            /\ ~procs[shuts[sd].proc].alive
            /\ OnSigtermTimer(sd) \/ OnForceKillTimeout(sd) )
          => Signals' = Signals]_vars

\* The latest shutdown() call has resolved and nothing was spawned since.
ShutDownLast ==
    /\ shuts # <<>>
    /\ shuts[Len(shuts)].done
    /\ shuts[Len(shuts)].proc = Len(procs)
    /\ shuts[Len(shuts)].proc # 0

\* C13: a shutdown() called after the previous shutdown() has resolved, with
\* no process spawned in between, resolves at once, sends no signal, closes
\* no stream and arms no timer that could send one later.
C13_SecondShutdownIsQuiet ==
    [][(ShutDownLast /\ Shutdown)
       => LET sd == Len(shuts) + 1
          IN  /\ Told(last', Who("shutdown", sd), "void", <<>>, "")
              /\ shuts'[sd].done
              /\ ~shuts'[sd].sigtermTimer
              /\ ~shuts'[sd].forceKillTimeout
              /\ Signals' = Signals
              /\ procs' = procs]_vars

\* The second of two shutdown() calls in a row has just returned.
C13_Witness ==
    /\ Len(shuts) >= 2
    /\ shuts[1].proc # 0
    /\ shuts[1].done
    /\ shuts[2].proc = 0
    /\ shuts[2].done
    /\ Told(last, Who("shutdown", 2), "void", <<>>, "")

\* The step is a timer of shutdown call sd, and it delivered a signal.
SignalledBy(sd) ==
    /\ OnSigtermTimer(sd) \/ OnForceKillTimeout(sd)
    /\ Signals' # Signals

\* C14: shutdown() escalates in order: a timer of the call signals only the
\* process the call is shutting down, only while that process has not exited
\* and after its stdin was closed, and SIGKILL only after SIGTERM.
C14_EscalationOrder ==
    [][\A sd \in 1..Len(shuts) :
          SignalledBy(sd)
          => LET p == shuts[sd].proc
             IN  /\ p # 0
                 /\ procs[p].alive
                 /\ ~procs[p].stdinWritable
                 /\ \A q \in Procs \ {p} : Signals'[q] = Signals[q]
                 /\ procs'[p].sigkill > procs[p].sigkill => procs[p].sigterm > 0]_vars

\* C15: a shutdown() call that has not resolved still has its hard deadline
\* armed; the deadline's firing resolves it, and so does the exit event of
\* the process it is shutting down.
C15_ShutdownResolves ==
    [][/\ \A sd \in 1..Len(shuts') :
            ~shuts'[sd].done => shuts'[sd].forceKillTimeout
       /\ \A sd \in 1..Len(shuts) :
            /\ OnForceKillTimeout(sd) => shuts'[sd].done
            /\ (~shuts[sd].done /\ procs[shuts[sd].proc].alive /\ OnExit(shuts[sd].proc))
               => /\ shuts'[sd].done
                  /\ Told(last', Who("shutdown", sd), "void", <<>>, "")]_vars

\* A shutdown() call has just been resolved by its hard deadline, the process
\* not having exited.
C15_Witness ==
    \E sd \in 1..Len(shuts) :
        /\ shuts[sd].proc # 0
        /\ procs[shuts[sd].proc].alive
        /\ procs[shuts[sd].proc].sigkill > 0
        /\ shuts[sd].done
        /\ Told(last, Who("shutdown", sd), "void", <<>>, "")

\* C16: shutdown() with no process held, or in api mode, returns at once and
\* changes nothing: no signal, no timer, and the state, this.pendingPromise,
\* the statistics, the processes, the turns and the Stream Buffer are as before.
C16_ShutdownWithoutProcess ==
    [][((mode = "api" \/ process = 0) /\ Shutdown)
       => LET sd == Len(shuts) + 1
          IN  /\ Told(last', Who("shutdown", sd), "void", <<>>, "")
              /\ shuts'[sd].done
              /\ ~shuts'[sd].sigtermTimer
              /\ ~shuts'[sd].forceKillTimeout
              /\ \A u \in 1..Len(shuts) : shuts'[u] = shuts[u]
              /\ UNCHANGED <<state, process, pendingPromise, stats, listeners,
                             procs, turns, calls, inits, crashed, client,
                             stdoutBuffer>>]_vars

\* shutdown() has just returned on a provider whose process had exited before.
C16_Witness ==
    \E sd \in 1..Len(shuts) :
        /\ mode = "persistent"
        /\ procs # <<>>
        /\ shuts[sd].proc = 0
        /\ Told(last, Who("shutdown", sd), "void", <<>>, "")

\* C17: the step that handles a process exit, and the step that resolves a
\* shutdown() of a process, leave the provider STOPPED, and it stays STOPPED
\* until the next initialize() or complete().
C17_StoppedAfterExit ==
    [][/\ (\E p \in Procs : OnExit(p)) => state' = "STOPPED"
       /\ (\E sd \in 1..Len(shuts) : ~shuts[sd].done /\ shuts'[sd].done)
          => state' = "STOPPED"
       /\ (state = "STOPPED" /\ Len(inits') = Len(inits) /\ Len(calls') = Len(calls))
          => state' = "STOPPED"]_vars

\* The warmup of process p, spawned with a pid, is still open.
WarmupOpenOf(p) ==
    /\ procs[p].pid
    /\ procs[p].alive
    /\ procs[p].start
    /\ process = p
    /\ pendingPromise # 0
    /\ turns[pendingPromise].owner = 0
    /\ turns[pendingPromise].proc = p
    /\ turns[pendingPromise].open

\* C18: when the 5 s warmup timer of a process fires while its warmup turn is
\* still open, the provider becomes READY and the call that started the
\* process resolves.
C18_WarmupGraceMakesReady ==
    [][\A p \in Procs :
          (WarmupOpenOf(p) /\ OnWarmupTimeout(p))
          => /\ ~procs'[p].start
             /\ state' = "READY" \/ DispatchedNext
             /\ procs[p].starter.kind = "init"
                => Told(last', procs[p].starter, "true", <<>>, "")]_vars

\* C19: an initialize() whose spawn yields no pid rejects with the error and
\* leaves the provider in ERROR.
C19_SpawnFailureRejects ==
    [][( /\ Initialize
         /\ Len(procs') = Len(procs) + 1
         /\ ~procs'[Len(procs')].pid )
       => /\ Told(last', Who("init", Len(inits')), "throw", <<>>, "spawn error")
          /\ state' = "ERROR"
          /\ ~crashed']_vars

\* The processes spawned on behalf of complete() call c.
StartedFor(c) == { p \in Procs : procs[p].starter = Who("call", c) }

\* A request of a complete() call is written only once the warmup of the
\* process spawned for that call has settled, and a call spawns at most once.
CallsWaitForWarmup ==
    /\ \A t \in Turns : \A p \in StartedFor(turns[t].owner) : \A w \in Turns :
         (turns[t].owner # 0 /\ turns[w].owner = 0 /\ turns[w].proc = p)
         => ~turns[w].open
    /\ \A c \in Calls : Cardinality(StartedFor(c)) <= 1

\* C20: a complete() issued while STOPPED spawns one process and sends the
\* warmup, not its own request; its request is written only once that warmup
\* has settled; a complete() issued during a warmup spawns nothing and
\* writes nothing.
C20_CompleteInitializesFirst ==
    [][/\ CallsWaitForWarmup'
       /\ (mode = "persistent" /\ Complete)
          => LET c == Len(calls) + 1
             IN  /\ state = "STOPPED" =>
                      /\ Len(procs') = Len(procs) + 1
                      /\ procs'[Len(procs')].starter = Who("call", c)
                      /\ \A t \in 1..Len(turns') : turns'[t].owner # c
                 /\ (process # 0 /\ WarmupOpenOf(process))
                    => /\ Len(procs') = Len(procs)
                       /\ Len(turns') = Len(turns)]_vars

\* A complete() issued while STOPPED has had its request written, after the
\* warmup of the process spawned for it, while a second complete() issued
\* during that warmup spawned nothing.
C20_Witness ==
    \E c \in Calls, t \in Turns :
        /\ turns[t].owner = c
        /\ StartedFor(c) # {}
        /\ \E d \in Calls : d # c /\ calls[d].pc = "poll"
        /\ Len(procs) = 1
        /\ inits = <<>>

\* What _handleStdout decodes from bytes delivered as one chunk to an empty buffer.
Unsplit(bytes) == _handleStdout([Cur EXCEPT !.stdoutBuffer = <<>>], bytes)

\* C21: however the bytes of the stream delivered so far were split into chunks,
\* the messages decoded from them are those decoded from the same bytes
\* delivered as one chunk, in the same order, and the Stream Buffer holds the
\* same unterminated tail.
C21_ChunkingIsInvisible ==
    /\ heard = Unsplit(read).parsed
    /\ stdoutBuffer = Unsplit(read).stdoutBuffer

\* C22: a message decoded while this.pendingPromise is null is dropped: the
\* state, the statistics (completions, latency, errors, cold starts), the
\* process handle and every turn are as before, and no caller is told anything.
C22_OrphanedMessageDiscarded ==
    [][\A p \in Procs : \A msg \in CanWrite(Cur, p) :
          (pendingPromise = 0 /\ OnStdoutMsg(p, msg))
          => /\ state' = state
             /\ stats' = stats
             /\ process' = process
             /\ turns' = turns
             /\ calls' = calls
             /\ last' = <<>>]_vars

\* A live process has answered a turn that was no longer open (it had timed
\* out) while no turn was open: nothing was counted and nobody was told.
C22_Witness ==
    /\ pendingPromise = 0
    /\ last = <<>>
    /\ stats.completions = 0
    /\ stats.errors = 0
    /\ \E t \in Turns :
         /\ ~turns[t].open
         /\ procs[turns[t].proc].alive
         /\ \A i \in 1..Len(procs[turns[t].proc].inbox) :
              procs[turns[t].proc].inbox[i] # t

\* C23: a chunk holding a line that is not JSON followed by the line of a message
\* has the effect of the line of the message alone: the line that is not JSON
\* leaves the open turn, its response, the state and the statistics (the error
\* counter included) as they were and nothing of it stays in the Stream Buffer,
\* and the line after it is decoded and handled.
C23_NoiseLineIgnored ==
    [][\A p \in Procs : \A msg \in CanWrite(Cur, p) :
          ( /\ last' # <<>>
            /\ last'[1] = Ignored
            /\ OnStdoutData(p, TRUE, msg) )
          => \E elapsed \in Elapsed :
               LET q == Forget(StdoutData(Cur, p, FALSE, msg, elapsed))
               IN  /\ last' = <<Ignored>> \o q.out
                   /\ state' = q.state
                   /\ pendingPromise' = q.pendingPromise
                   /\ turns' = q.turns
                   /\ stats' = q.stats
                   /\ process' = q.process
                   /\ calls' = q.calls
                   /\ stdoutBuffer' = <<>>
                   /\ msg = SystemMsg
                      => /\ state' = state
                         /\ pendingPromise' = pendingPromise
                         /\ turns' = turns
                         /\ stats' = stats]_vars

\* A chunk began with a line that is not JSON, and the result line after it
\* resolved a complete() caller with the text accumulated before the chunk.
C23_Witness ==
    /\ Len(last) >= 2
    /\ last[1] = Ignored
    /\ \E i \in 2..Len(last) :
         /\ last[i].who.kind = "call"
         /\ last[i].ret = "text"
         /\ last[i].val # <<>>

\* Turn t is settled by this step: its caller is told once, and never before.
SettledBy(t, step) ==
    /\ step
    /\ Cardinality({ i \in 1..Len(last') : last'[i].who = Awaiter(t) }) = 1

\* C24: every turn _sendMessage opens (the warmup turn included) is settled
\* once: by a result or error line, by the exit of its process or by its own
\* timeout, whichever comes first; a fragment or system line settles none; a
\* settled turn is never settled again; and an open turn always has its timeout
\* armed, so that it cannot stay pending once timers fire.
C24_SettledExactlyOnce ==
    [][ /\ \A t \in 1..Len(turns') : turns'[t].open => turns'[t].timer
        /\ \A t \in Turns :
             ~turns[t].open
             => /\ ~turns'[t].open
                /\ \A i \in 1..Len(last') : last'[i].who # Awaiter(t)
        /\ \A t \in Turns :
             (turns[t].open /\ ~turns'[t].open)
             => \/ SettledBy(t, OnTurnTimeout(t))
                \/ SettledBy(t, \E p \in Procs : OnExit(p))
                \/ SettledBy(t, \E p \in Procs : \E msg \in CanWrite(Cur, p) :
                                   /\ msg.type \in {"result", "error"}
                                   /\ OnStdoutMsg(p, msg))
        /\ \A p \in Procs : \A msg \in CanWrite(Cur, p) :
             ( /\ msg.type \in {"assistant", "system"}
               /\ pendingPromise # 0
               /\ OnStdoutMsg(p, msg) )
             => /\ \A t \in Turns : turns'[t].open = turns[t].open
                /\ last' = <<>> ]_vars

\* A turn has just been settled by its timeout after another turn had been
\* settled before it.
C24_Witness ==
    \E t \in Turns : \E u \in Turns :
        /\ u < t
        /\ ~turns[u].open
        /\ ~turns[t].open
        /\ \E i \in 1..Len(last) :
             /\ last[i].who = Awaiter(t)
             /\ last[i].ret = "throw"
             /\ last[i].err = "Timeout"

\* C25: the provider is BUSY exactly when this.pendingPromise holds a turn: BUSY
\* implies a turn is held, and READY, STOPPED and ERROR each imply none is (in
\* every state of a hosting process that is still running).
C25_BusyIffPendingTurn ==
    ~crashed
    => /\ state = "BUSY" => pendingPromise # 0
       /\ state \in {"READY", "STOPPED", "ERROR"} => pendingPromise = 0

\* C26: no step decreases a statistics counter: completions, the cumulative
\* latency totalTimeMs, errors and coldStarts only stay or grow.
C26_StatsNeverDecrease ==
    [][ /\ stats'.completions >= stats.completions
        /\ stats'.totalTimeMs >= stats.totalTimeMs
        /\ stats'.errors >= stats.errors
        /\ stats'.coldStarts >= stats.coldStarts ]_vars

\* C27: initialize() called while the state is READY returns true in the same
\* step and changes nothing: no process is spawned, no turn is opened, and the
\* state, the handle, this.pendingPromise and the statistics (coldStarts
\* included) are as before.
C27_InitializeWhenReady ==
    [][(mode = "persistent" /\ state = "READY" /\ Initialize)
       => /\ last' = <<Outcome(Who("init", Len(inits) + 1), "true", <<>>, "")>>
          /\ procs' = procs
          /\ turns' = turns
          /\ state' = state
          /\ process' = process
          /\ pendingPromise' = pendingPromise
          /\ stats' = stats
          /\ listeners' = listeners]_vars

\* An initialize() call has just returned true on its own, with the provider
\* READY on a running process that an earlier call started.
C27_Witness ==
    /\ mode = "persistent"
    /\ state = "READY"
    /\ process # 0
    /\ procs[process].alive
    /\ Len(inits) >= 2
    /\ last = <<Outcome(Who("init", Len(inits)), "true", <<>>, "")>>
    /\ stats.coldStarts = 1

ShutdownsOf(p) == { sd \in 1..Len(shuts) : shuts[sd].proc = p }

\* C29: when two shutdown() calls overlap on one process (the second found the
\* handle the first had not yet dropped) and no other shutdown() was issued,
\* the process has been sent at most one SIGTERM and at most one SIGKILL.
C29_OverlappingShutdownsSignalOnce ==
    \A p \in Procs :
        (Cardinality(ShutdownsOf(p)) = 2 /\ Len(shuts) = 2)
        => /\ procs[p].sigterm <= 1
           /\ procs[p].sigkill <= 1

\* The rejections of complete() that are no failure of a turn or of a request:
\* the provider was not ready, or had no process or no client to send to.
RefusedErrors == NotReadyErrors \cup {"Process not running", "client error"}

\* C30: in both modes, the step in which a complete() call resolves increments
\* stats.completions by one, and the step in which a complete() call is
\* rejected for a failed turn (error line, timeout, process exit) or a failed
\* API request increments stats.errors by one.
C30_CountersFollowOutcomes ==
    [][\A i \in 1..Len(last') :
          last'[i].who.kind = "call"
          => /\ last'[i].ret = "text"
                => /\ stats'.completions = stats.completions + 1
                   /\ stats'.errors = stats.errors
             /\ (last'[i].ret = "throw" /\ last'[i].err \notin RefusedErrors)
                => /\ stats'.errors = stats.errors + 1
                   /\ stats'.completions = stats.completions]_vars

\* The rejections of a warmup turn that are no failure of the turn itself.
NotTurnFailures == {"Process exited unexpectedly", "Process not running"}

\* C31: when the warmup turn is rejected by an error line or by its timeout
\* while this.process is a running process with a pid, the provider becomes
\* READY and the initialize() that started the warmup resolves true; when no
\* process with a pid is held at that moment, the state becomes ERROR and that
\* initialize() rejects with the turn's error.
C31_WarmupFailureStillReady ==
    [][\A t \in Turns : \A i \in 1..Len(last') :
          ( /\ turns[t].owner = 0
            /\ last'[i].who = Who("warmup", t)
            /\ last'[i].ret = "throw"
            /\ last'[i].err \notin NotTurnFailures )
          => LET p == turns[t].proc
             IN  /\ (process # 0 /\ procs[process].pid /\ procs[process].alive)
                    => /\ state' = "READY" \/ DispatchedNext
                       /\ procs[p].starter.kind = "init"
                          => Told(last', procs[p].starter, "true", <<>>, "")
                 /\ (process = 0 \/ ~procs[process].pid)
                    => /\ state' = "ERROR"
                       /\ procs[p].starter.kind = "init"
                          => Told(last', procs[p].starter, "throw", <<>>,
                                  last'[i].err)]_vars

\* A warmup turn was rejected by an error line or its timeout, the provider
\* is READY and an initialize() was told true in the same step.
C31_Witness ==
    \E i, j \in 1..Len(last) :
        /\ last[i].who.kind = "warmup"
        /\ last[i].ret = "throw"
        /\ last[i].err \notin NotTurnFailures
        /\ last[j] = Outcome(procs[turns[last[i].who.id].proc].starter, "true", <<>>, "")
        /\ last[j].who.kind = "init"
        /\ state = "READY"
        /\ process # 0 /\ procs[process].pid /\ procs[process].alive

\* The other branch: the warmup turn failed while no handle was held.
C31_WitnessNoPid ==
    \E i, j \in 1..Len(last) :
        /\ last[i].who.kind = "warmup"
        /\ last[i].ret = "throw"
        /\ last[i].err \notin NotTurnFailures
        /\ last[j] = Outcome(procs[turns[last[i].who.id].proc].starter, "throw", <<>>, last[i].err)
        /\ last[j].who.kind = "init"
        /\ state = "ERROR"
        /\ process = 0

C33_ApiModeHasNoStateMachine ==
    [][mode = "api"
       => /\ mode' = "api"
          /\ procs' = <<>> /\ turns' = <<>>
          /\ state' = "STOPPED" /\ process' = 0 /\ pendingPromise' = 0
          /\ isReady(Cur) /\ isReady(Cur)'
          /\ Len(inits') > Len(inits)
             => /\ Told(last', Who("init", Len(inits')), "true", <<>>, "")
                /\ UNCHANGED <<stats, listeners, calls, shuts, client, crashed>>
          /\ Len(shuts') > Len(shuts)
             => /\ Told(last', Who("shutdown", Len(shuts')), "void", <<>>, "")
                /\ shuts'[Len(shuts')].done
                /\ ~shuts'[Len(shuts')].sigtermTimer
                /\ ~shuts'[Len(shuts')].forceKillTimeout
                /\ UNCHANGED <<stats, listeners, calls, inits, client, crashed>>]_vars

\* An api-mode provider that has served initialize(), complete() and shutdown().
C33_Witness ==
    /\ mode = "api"
    /\ inits # <<>> /\ shuts # <<>>
    /\ \E c \in Calls : calls[c].pc = "done" /\ stats.completions = 1
    /\ isReady(Cur)

\* C34: the exit of a subprocess that was killed at the hard deadline of a
\* shutdown(), arriving while a later subprocess is held, leaves the handle,
\* the state and the open turn of the later subprocess as they are.
C34_LateExitSparesNewProcess ==
    [][\A p \in Procs :
          ( /\ process # 0 /\ process # p
            /\ procs[process].alive
            /\ procs[p].sigkill > 0
            /\ OnExit(p) )
          => /\ process' = process
             /\ state' = state
             /\ pendingPromise' = pendingPromise
             /\ \A t \in Turns : turns[t].proc = process => turns'[t] = turns[t]]_vars

\* C35: while no exception has escaped, a provider in state READY or BUSY holds
\* a handle, and the subprocess of that handle has a pid and has not exited.
C35_ReadyOrBusyHasProcess ==
    (~crashed /\ state \in {"READY", "BUSY"})
    => /\ process # 0
       /\ procs[process].pid
       /\ procs[process].alive

\* C36: the step that spawns a subprocess when every earlier one has exited
\* leaves this.stdoutBuffer empty.
C36_NoLeftoverAtSpawn ==
    [][( /\ Len(procs') > Len(procs)
         /\ procs # <<>>
         /\ \A q \in Procs : ~procs[q].alive )
       => stdoutBuffer' = <<>>]_vars

\* The complete() calls that the step just taken resolved with a text.
ResolvedCalls(out) ==
    { i \in 1..Len(out) : out[i].who.kind = "call" /\ out[i].ret = "text" }

\* C37: stats.completions starts at 0 and no step raises it by more than the
\* number of complete() calls the step resolves, so it never exceeds the number
\* of complete() calls resolved so far; a step that resolves the warmup turn
\* alone leaves completions, totalTimeMs and avgTimeMs as they were.
C37_CompletionsCountCallsOnly ==
    [][/\ stats'.completions <= stats.completions + Cardinality(ResolvedCalls(last'))
       /\ ResolvedCalls(last') = {}
          => /\ stats'.totalTimeMs = stats.totalTimeMs
             /\ stats'.avgTimeMs = stats.avgTimeMs]_vars

\* C39: when the timeout of turn t fires while this.pendingPromise holds a
\* different turn, that turn stays in this.pendingPromise, open and with its
\* timer armed.
C39_TimeoutActsOnOwnTurn ==
    [][\A t \in Turns :
          ( /\ pendingPromise # 0 /\ pendingPromise # t
            /\ OnTurnTimeout(t) )
          => /\ pendingPromise' = pendingPromise
             /\ turns'[pendingPromise] = turns[pendingPromise]]_vars

\* The initialize() calls on the EmbeddingService waiting for a load in progress.
EmbedWaiting == { w \in 1..Len(embedInits) : embedInits[w].pc = "waiting" }

\* C38: the step in which the load of an EmbeddingService initialize() ends
\* settles every initialize() call that was waiting for that load: with true
\* when the load succeeded, and not left waiting when it failed.
C38_WaitersSettleWithLoad ==
    [][\A e \in 1..Len(embedInits) :
          ( /\ embedInits[e].pc \in {"import", "pipeline"}
            /\ embedInits'[e].pc \in {"true", "throw"} )
          => \A w \in EmbedWaiting :
                /\ embedInits'[w].pc # "waiting"
                /\ embedInits'[e].pc = "true" => embedInits'[w].pc = "true"]_vars

====
